---- MODULE Spec2Model ----
(***************************************************************************)
(* A model of PyMEMENTO/gmx_util.py: the box-line editor, the geometric    *)
(* scaler, the log classifier of minimize, the index helpers and the       *)
(* embedding controller embed_in_lipids.                                   *)
(*                                                                         *)
(* Numbers.  Lengths of a box line are integers in units of 1e-5 nm (the   *)
(* resolution of a .gro box line and of round(.., 5)).  Atom coordinates   *)
(* are integers in units of 0.01 Angstrom (the resolution of a .gro        *)
(* coordinate).  A scale factor is a rational [num, den].  Text is a       *)
(* sequence of one-character strings.                                      *)
(***************************************************************************)
EXTENDS Integers, Sequences, FiniteSets, TLC

VARIABLES
    pc,        \* position of embed_in_lipids: "start", "loop", "min", "perturb", "copy", "done", "failed"
    n,         \* the loop variable n of embed_in_lipids
    fs,        \* the file system: path -> content (Absent when there is no file)
    universe,  \* combined_universe, the snapshot held in memory
    boxsize,   \* the running box line (text)
    ratio,     \* stepwise_compression
    par,       \* the arguments of the call
    hist,      \* history of the run (what was invoked, in which order)
    fin,       \* the input of a function under test
    fout       \* its result ("none" before the call)

vars == <<pc, n, fs, universe, boxsize, ratio, par, hist, fin, fout>>

(***************************************************************************)
(* Text: Python's str.split(), float(), round(.., 5), str(float), rjust.   *)
(***************************************************************************)
Digits == <<"0", "1", "2", "3", "4", "5", "6", "7", "8", "9">>

IsDigit(c) == \E k \in 1..10 : Digits[k] = c

DigitVal(c) == (CHOOSE k \in 1..10 : Digits[k] = c) - 1

IsSpace(c) == c \in {" ", "\n", "\t"}

RECURSIVE Pow10(_)
Pow10(k) == IF k = 0 THEN 1 ELSE 10 * Pow10(k - 1)

RECURSIVE NatStr(_)
\* str(int) for a natural number
NatStr(k) == IF k < 10 THEN <<Digits[k + 1]>>
             ELSE NatStr(k \div 10) \o <<Digits[(k % 10) + 1]>>

RECURSIVE ZeroPad(_, _)
ZeroPad(s, w) == IF Len(s) >= w THEN s ELSE ZeroPad(<<"0">> \o s, w)

RECURSIVE StripZeros(_)
\* trailing zeros of a fraction removed, one digit kept
StripZeros(s) == IF Len(s) > 1 /\ s[Len(s)] = "0"
                 THEN StripZeros(SubSeq(s, 1, Len(s) - 1)) ELSE s

RECURSIVE rjust(_, _)
\* str.rjust(w): pads on the left, never truncates
rjust(s, w) == IF Len(s) >= w THEN s ELSE rjust(<<" ">> \o s, w)

\* str(x) of the float x = u * 1e-5, u >= 0 (the shortest repr: positional
\* from 1e-4 on, scientific below)
FloatStr(u) ==
    IF u = 0 THEN <<"0", ".", "0">>
    ELSE IF u < 10 THEN <<Digits[u + 1], "e", "-", "0", "5">>
    ELSE NatStr(u \div 100000) \o <<".">>
         \o StripZeros(ZeroPad(NatStr(u % 100000), 5))

\* "%10.5f" % x, the field of a .gro box line, x = u * 1e-5
GroField(u) ==
    rjust(NatStr(u \div 100000) \o <<".">> \o ZeroPad(NatStr(u % 100000), 5), 10)

RECURSIVE SplitFrom(_, _, _)
\* str.split(): the maximal runs of non-whitespace characters, in order
SplitFrom(s, i, cur) ==
    IF i > Len(s) THEN (IF cur = <<>> THEN <<>> ELSE <<cur>>)
    ELSE IF IsSpace(s[i])
         THEN (IF cur = <<>> THEN <<>> ELSE <<cur>>) \o SplitFrom(s, i + 1, <<>>)
         ELSE SplitFrom(s, i + 1, Append(cur, s[i]))

split(s) == SplitFrom(s, 1, <<>>)

RECURSIVE DigitsVal(_)
DigitsVal(s) == IF s = <<>> THEN 0
                ELSE 10 * DigitsVal(SubSeq(s, 1, Len(s) - 1)) + DigitVal(s[Len(s)])

Find(s, c) == IF \E i \in 1..Len(s) : s[i] = c
              THEN CHOOSE i \in 1..Len(s) : s[i] = c /\ \A j \in 1..(i - 1) : s[j] /= c
              ELSE 0

\* float(tok) for tok = digits [. digits] [e- digits], as the exact decimal
\* m * 10^(-d)
float(tok) ==
    LET e    == Find(tok, "e")
        mant == IF e = 0 THEN tok ELSE SubSeq(tok, 1, e - 1)
        ex   == IF e = 0 THEN 0 ELSE DigitsVal(SubSeq(tok, e + 2, Len(tok)))
        p    == Find(mant, ".")
        ip   == IF p = 0 THEN mant ELSE SubSeq(mant, 1, p - 1)
        fp   == IF p = 0 THEN <<>> ELSE SubSeq(mant, p + 1, Len(mant))
    IN  [m |-> DigitsVal(ip \o fp), d |-> Len(fp) + ex]

\* a / b to the nearest integer, ties to even (a >= 0, b > 0)
RoundDiv(a, b) ==
    LET q == a \div b
        r == a % b
    IN  IF 2 * r < b THEN q
        ELSE IF 2 * r > b THEN q + 1
        ELSE IF q % 2 = 0 THEN q ELSE q + 1

\* round(x * f, 5) in units of 1e-5, x = m * 10^(-d), f = num / den
RoundScaled(x, f) ==
    IF x.d <= 5 THEN RoundDiv(x.m * Pow10(5 - x.d) * f.num, f.den)
    ELSE RoundDiv(x.m * f.num, f.den * Pow10(x.d - 5))

One == [num |-> 1, den |-> 1]

(***************************************************************************)
(* stretch_boxsize                                                         *)
(***************************************************************************)
RECURSIVE JoinFields(_)
\* "".join(fields)
JoinFields(fields) == IF fields = <<>> THEN <<>>
                      ELSE Head(fields) \o JoinFields(Tail(fields))

\* (a variant that scales the third field as well)
BoxScaleList_AllAxes(scale_factor) == <<scale_factor, scale_factor, scale_factor>>

\* scale = [scale_factor, scale_factor, 1]
BoxScaleList(scale_factor) == <<scale_factor, scale_factor, One>>

\* stretch_boxsize(boxsize_line, scale_factor): the scaled line, or an
\* IndexError when the line has more fields than scale has entries
stretch_boxsize(boxsize_line, scale_factor) ==
    LET toks  == split(boxsize_line)
        scale == BoxScaleList(scale_factor)
    IN  IF Len(toks) > Len(scale) THEN [error |-> "IndexError", line |-> <<>>]
        ELSE LET dimenions == [k \in 1..Len(toks) |->
                                  RoundScaled(float(toks[k]), scale[k])]
             IN  [error |-> "",
                  line  |-> JoinFields([k \in 1..Len(toks) |->
                                rjust(FloatStr(dimenions[k]), 10)]) \o <<"\n">>]

(***************************************************************************)
(* minimize: the scan of the log.  A log line is a sequence of tokens:     *)
(* text free of both markers, the word ERROR, the marker "inf on atom ",   *)
(* a number.                                                               *)
(***************************************************************************)
Txt == [t |-> "txt", v |-> 0]

Err == [t |-> "ERROR", v |-> 0]

Inf == [t |-> "inf on atom ", v |-> 0]

Num(k) == [t |-> "num", v |-> k]

\* "inf on atom " in line, "ERROR" in line
Contains(line, tok) == \E i \in 1..Len(line) : line[i] = tok

\* line.split("inf on atom ")[-1]: what follows the last marker
AfterLastMarker(line) ==
    LET last == CHOOSE i \in 1..Len(line) :
                    line[i] = Inf /\ \A j \in (i + 1)..Len(line) : line[j] /= Inf
    IN  SubSeq(line, last + 1, Len(line))

Success == [kind |-> "Success", atom |-> 0]

AtomOverlap(k) == [kind |-> "AtomOverlap", atom |-> k]

FatalError == [kind |-> "FatalError", atom |-> 0]

\* int() of something that is no number: a ValueError of another message
IntError == [kind |-> "IntError", atom |-> 0]

\* int(line.split("inf on atom ")[-1])
GrabAtomId(line) ==
    LET rest == AfterLastMarker(line)
    IN  IF Len(rest) = 1 /\ rest[1].t = "num" THEN AtomOverlap(rest[1].v)
        ELSE IntError

\* (a variant without the test for ERROR)
ClassifyLine_NoErrorTest(line) ==
    IF Contains(line, Inf) THEN GrabAtomId(line) ELSE Success

\* the two tests made on one line, in the order of the source
ClassifyLine(line) ==
    IF Contains(line, Inf) THEN GrabAtomId(line)
    ELSE IF Contains(line, Err) THEN FatalError
    ELSE Success

RECURSIVE ScanLog(_, _)
\* for line in logfile: ...; return None
ScanLog(logfile, i) ==
    IF i > Len(logfile) THEN Success
    ELSE LET r == ClassifyLine(logfile[i])
         IN  IF r = Success THEN ScanLog(logfile, i + 1) ELSE r

\* the value (or exception) with which minimize ends on this log
MinimizeOutcome(logfile) == ScanLog(logfile, 1)

(***************************************************************************)
(* stretch_relative and the snapshot (an MDAnalysis Universe): a sequence  *)
(* of atoms [id, pos, lip], lip telling whether lipid_selection matches;   *)
(* a group is the increasing sequence of the indices of its atoms.         *)
(***************************************************************************)
RECURSIVE SumAxis(_, _, _)
SumAxis(atoms, group, ax) ==
    IF group = <<>> THEN 0
    ELSE atoms[Head(group)].pos[ax] + SumAxis(atoms, Tail(group), ax)

\* anchor.atoms.center(None): the unweighted mean, as sum / count per axis
Center(atoms, anchor) ==
    [sum |-> <<SumAxis(atoms, anchor, 1), SumAxis(atoms, anchor, 2),
               SumAxis(atoms, anchor, 3)>>,
     cnt |-> Len(anchor)]

\* center + scale_factor * (x - center), to the nearest coordinate unit
ScaleAbout(x, csum, ccnt, f) ==
    RoundDiv(csum * f.den + f.num * (x * ccnt - csum), ccnt * f.den)

\* the new position of one atom
StretchedPos(pos, center, scale_factor) ==
    <<ScaleAbout(pos[1], center.sum[1], center.cnt, scale_factor),
      ScaleAbout(pos[2], center.sum[2], center.cnt, scale_factor),
      pos[3]>>

RECURSIVE StretchLoop(_, _, _, _)
\* for atom in to_strech.atoms: atom.position = ...
StretchLoop(atoms, todo, center, scale_factor) ==
    IF todo = <<>> THEN atoms
    ELSE StretchLoop(
             [atoms EXCEPT ![Head(todo)].pos =
                 StretchedPos(atoms[Head(todo)].pos, center, scale_factor)],
             Tail(todo), center, scale_factor)

RECURSIVE StretchLoop_Recentering(_, _, _, _)
StretchLoop_Recentering(atoms, todo, anchor, scale_factor) ==
    IF todo = <<>> THEN atoms
    ELSE StretchLoop_Recentering(
             [atoms EXCEPT ![Head(todo)].pos =
                 StretchedPos(atoms[Head(todo)].pos, Center(atoms, anchor), scale_factor)],
             Tail(todo), anchor, scale_factor)

\* (a variant that computes the centre anew for each atom)
stretch_relative_Recentering(atoms, to_strech, anchor, scale_factor) ==
    StretchLoop_Recentering(atoms, to_strech, anchor, scale_factor)

\* stretch_relative(to_strech, anchor, scale_factor) on the atoms the two
\* groups belong to
stretch_relative(atoms, to_strech, anchor, scale_factor) ==
    StretchLoop(atoms, to_strech, Center(atoms, anchor), scale_factor)

RECURSIVE SelectFrom(_, _, _)
SelectFrom(atoms, i, want) ==
    IF i > Len(atoms) THEN <<>>
    ELSE (IF atoms[i].lip = want THEN <<i>> ELSE <<>>)
         \o SelectFrom(atoms, i + 1, want)

\* (a variant in which every selection matches every atom)
select_atoms_Everything(atoms, want) == [i \in 1..Len(atoms) |-> i]

\* select_atoms(lipid_selection) (want = TRUE) and
\* select_atoms("not ( " + lipid_selection + " )") (want = FALSE)
select_atoms(atoms, want) == SelectFrom(atoms, 1, want)

\* (a variant that takes k as a 0-based index)
select_bynum_ZeroBased(atoms, k) == IF k + 1 \in 1..Len(atoms) THEN <<k + 1>> ELSE <<>>

\* select_atoms("bynum " + str(k)): the atom of 1-based number k, if any
select_bynum(atoms, k) == IF k \in 1..Len(atoms) THEN <<k>> ELSE <<>>

\* (a variant that puts the second group first)
Merge_SecondFirst(a, b) == b \o a

\* mda.Merge(a.atoms, b.atoms)
Merge(a, b) == a \o b

(***************************************************************************)
(* Files.  A path is a sequence of pieces; a file is a record.             *)
(***************************************************************************)
\* os.path.join(a, b) for a non-empty a and a relative b
join(a, b) == IF a[Len(a)] = "/" THEN Append(a, b) ELSE a \o <<"/", b>>

\* a + b, the concatenation of the two texts
Concat(a, b) == IF a[Len(a)] = "/" THEN Append(a, b)
                ELSE SubSeq(a, 1, Len(a) - 1) \o <<a[Len(a)] \o b>>

RECURSIVE NumName(_)
\* str(k) inside a file name
NumName(k) == IF k < 10 THEN Digits[k + 1]
              ELSE NumName(k \div 10) \o Digits[(k % 10) + 1]

\* (a variant that names the raw artifact)
EmbedName_Raw(k) == "embed_raw" \o NumName(k) \o ".gro"

\* f"embed_{k}.gro", f"embed_raw{k}.gro", and what mdrun names after deffnm
EmbedName(k) == "embed_" \o NumName(k) \o ".gro"

RawName(k) == "embed_raw" \o NumName(k) \o ".gro"

RunName(k) == "embed_" \o NumName(k)

GroFile(atoms, box) == [kind |-> "gro", atoms |-> atoms, box |-> box, text |-> <<>>]

TextFile(kind, text) == [kind |-> kind, atoms |-> <<>>, box |-> <<>>, text |-> text]

\* open(path, "w") and write: the file is created or replaced
WriteFile(f, path, content) ==
    [q \in (DOMAIN f) \cup {path} |-> IF q = path THEN content ELSE f[q]]

\* (a variant that copies nothing)
copyfile_Nothing(f, src, dst) == f

\* shutil.copyfile(src, dst)
copyfile(f, src, dst) == WriteFile(f, dst, f[src])

\* mda.Universe(path): the atoms and the box of the file
Universe(f, path) == [atoms |-> f[path].atoms, dims |-> f[path].box]

\* u.atoms.write(path): a snapshot without dimensions is written with a zero box
WriteUniverse(f, path, u) ==
    WriteFile(f, path, GroFile(u.atoms, IF u.dims = <<>> THEN <<0, 0, 0>> ELSE u.dims))

\* [float(x) * 10 for x in boxsize_line.split()], written back in nm
BoxUnits(boxsize_line) ==
    LET toks == split(boxsize_line)
    IN  [k \in 1..Len(toks) |-> RoundScaled(float(toks[k]), One)]

\* change_boxsize(file_to_process, boxsize_line)
change_boxsize(f, file_to_process, boxsize_line) ==
    LET u == Universe(f, file_to_process)
    IN  WriteUniverse(f, file_to_process,
                      [atoms |-> u.atoms, dims |-> BoxUnits(boxsize_line)])

(***************************************************************************)
(* The engine, as embed_in_lipids meets it: what grompp and mdrun leave    *)
(* behind.  A run either crashes (a failed invocation raises) or writes    *)
(* a log; a clean run also writes the minimised structure.                 *)
(***************************************************************************)
CleanLog == << <<Txt>>, <<Txt>> >>

OverlapLog(a) == << <<Txt>>, <<Txt, Inf, Num(a)>>, <<Txt>> >>

ErrorLog == << <<Txt>>, <<Err, Txt>> >>

\* how far a minimisation moves the atoms (in coordinate units)
RelaxMoves == {3}

\* the minimised structure: same atoms, same order, moved
Relax(atoms, c) ==
    [i \in 1..Len(atoms) |->
        [atoms[i] EXCEPT !.pos = <<@[1] + c * i, @[2] - c, @[3] + c>>]]

EngineRun(kind, log, relax) == [kind |-> kind, log |-> log, relax |-> relax]

(***************************************************************************)
(* The arguments of embed_in_lipids                                        *)
(***************************************************************************)
MaxSteps == 2

\* atoms of the largest system (a protein of one or two atoms and its lipids)
MaxAtoms == 5

\* overlap outcomes the engine may report in one run of embed_in_lipids
MaxRetries == 2

\* starting_scale, end_scale: the defaults 1.15 and 0.95, and 1.5 to 1
ScalePairs == { <<[num |-> 23, den |-> 20], [num |-> 19, den |-> 20]>>,
                <<[num |-> 3, den |-> 2], [num |-> 1, den |-> 1]>> }

\* folder_path, without and with a trailing separator
FolderPaths == { <<"work">>, <<"work", "/">> }

\* the box of the lipid file, 7.12345 6.5 9.00001 nm, and the last line of
\* its .gro file
Box0Units == <<712345, 650000, 900001>>

BoxLine0 == GroField(Box0Units[1]) \o GroField(Box0Units[2])
            \o GroField(Box0Units[3]) \o <<"\n">>

ProteinAtoms(n1) ==
    [i \in 1..n1 |-> [id |-> <<"P", i>>, lip |-> FALSE,
                      pos |-> <<100 * i, 50 * i * i, 10 * i>>]]

\* the atoms of the lipid file; with stray, its last atom is no lipid
\* (lipid_selection does not match it)
LipidAtoms(n2, stray) ==
    [j \in 1..n2 |-> [id |-> <<"L", j>>, lip |-> ~(stray /\ j = n2),
                      pos |-> <<900 * j - 700, 400 - 300 * j * j, 20 * j>>]]

\* the sizes of the two input files, and whether the lipid file ends with
\* an atom that lipid_selection does not match
Shapes ==
    { sh \in (1..2) \X (1..(MaxAtoms - 2)) \X BOOLEAN : sh[3] => sh[2] > 1 }

\* a keyword argument handed on to a tool
Flag(name, value) == [flag |-> name, value |-> value]

\* mdrun_flags: the default {}, and {"ntomp": 6} for the runs of an even
\* number of steps
MdrunFlags(steps) == IF steps % 2 = 0 THEN <<Flag("ntomp", 6)>> ELSE <<>>

Params ==
    { [steps |-> st, folder_path |-> fp, starting_scale |-> sp[1],
       end_scale |-> sp[2], n1 |-> sh[1], n2 |-> sh[2], stray |-> sh[3],
       mdrun_flags |-> MdrunFlags(st),
       boxsize_line |-> BoxLine0,
       protein_path |-> <<"in", "/", "protein.gro">>,
       lipid_path |-> <<"in", "/", "lipid.gro">>] :
      st \in 1..MaxSteps, fp \in FolderPaths, sp \in ScalePairs, sh \in Shapes }

\* the files present before the call
InitialFiles(p) ==
    LET f0 == [q \in {} |-> 0]
        f1 == WriteFile(f0, p.protein_path,
                        GroFile(ProteinAtoms(p.n1), <<500000, 500000, 500000>>))
        f2 == WriteFile(f1, p.lipid_path,
                        GroFile(LipidAtoms(p.n2, p.stray), BoxUnits(p.boxsize_line)))
        f3 == WriteFile(f2, join(p.folder_path, "template.top"),
                        TextFile("top", <<"template">>))
        f4 == WriteFile(f3, join(p.folder_path, "topol.top"),
                        TextFile("top", <<"left by an earlier run">>))
    IN  WriteFile(f4, join(p.folder_path, "minim.mdp"), TextFile("mdp", <<"minim">>))

NoHist ==
    [minCalls |-> 0, overlaps |-> <<>>, moved |-> <<>>, succeeded |-> {},
     retries |-> 0, outcome |-> "", return_code |-> -1,
     boxScalings |-> 0, lipidScalings |-> 0,
     flags |-> [grompp |-> <<>>, mdrun |-> <<>>]]

Idle == [done |-> FALSE, val |-> <<>>]

Init ==
    /\ par \in Params
    /\ pc = "start"
    /\ n = 0
    /\ fs = InitialFiles(par)
    /\ universe = [atoms |-> <<>>, dims |-> <<>>]
    /\ boxsize = par.boxsize_line
    /\ ratio = One
    /\ hist = NoHist
    /\ fin = Idle
    /\ fout = Idle

(***************************************************************************)
(* embed_in_lipids                                                         *)
(***************************************************************************)
RECURSIVE IPow(_, _)
IPow(b, k) == IF k = 0 THEN 1 ELSE b * IPow(b, k - 1)

Abs(x) == IF x < 0 THEN -x ELSE x

\* (a variant that takes the root of order steps + 1)
stepwise_compression_OneStepMore(starting_scale, end_scale, steps) ==
    LET miss(q) == Abs(IPow(q, steps + 1) * end_scale.den * starting_scale.num
                       - end_scale.num * starting_scale.den * IPow(100, steps + 1))
        best == CHOOSE q \in 1..120 : \A r \in 1..120 : miss(q) <= miss(r)
    IN  [num |-> best, den |-> 100]

\* np.power(end_scale / starting_scale, 1 / steps), to two decimals: the
\* q / 100 whose steps-th power is nearest to end_scale / starting_scale
stepwise_compression(starting_scale, end_scale, steps) ==
    LET miss(q) == Abs(IPow(q, steps) * end_scale.den * starting_scale.num
                       - end_scale.num * starting_scale.den * IPow(100, steps))
        best == CHOOSE q \in 1..120 : \A r \in 1..120 : miss(q) <= miss(r)
    IN  [num |-> best, den |-> 100]

\* the indices whose position differs between two snapshots of equal length
Moved(a, b) == {i \in 1..Len(a) : a[i].pos /= b[i].pos}

\* lines 440-451: the initial embed and the schedule
InitEmbed ==
    /\ pc = "start"
    /\ LET protein_universe == Universe(fs, par.protein_path)
           lipid_universe   == Universe(fs, par.lipid_path)
           both    == Merge(protein_universe.atoms, lipid_universe.atoms)
           np      == Len(protein_universe.atoms)
           lipidIx == [j \in 1..Len(lipid_universe.atoms) |-> np + j]
           protIx  == [i \in 1..np |-> i]
           atoms1  == stretch_relative(both, lipidIx, protIx, par.starting_scale)
           box1    == stretch_boxsize(boxsize, par.starting_scale)
           combined_universe == [atoms |-> atoms1, dims |-> <<>>]
           embed0  == join(par.folder_path, EmbedName(0))
       IN  IF box1.error /= ""
           THEN /\ pc' = "failed"
                /\ UNCHANGED <<n, fs, universe, boxsize, ratio, hist>>
           ELSE /\ boxsize' = box1.line
                /\ universe' = combined_universe
                /\ fs' = change_boxsize(WriteUniverse(fs, embed0, combined_universe),
                                        embed0, box1.line)
                /\ ratio' = stepwise_compression(par.starting_scale, par.end_scale,
                                                 par.steps)
                /\ hist' = [hist EXCEPT !.boxScalings = @ + 1, !.lipidScalings = @ + 1]
                /\ n' = 1
                /\ pc' = "loop"
    /\ UNCHANGED <<par, fin, fout>>

\* lines 452-463: one compression, up to the entry of the while loop
StepBegin ==
    /\ pc = "loop"
    /\ n <= par.steps
    /\ LET prev    == join(par.folder_path, EmbedName(n - 1))
           combined_universe == IF prev \in DOMAIN fs THEN Universe(fs, prev)
                                ELSE [atoms |-> <<>>, dims |-> <<>>]
           protein == select_atoms(combined_universe.atoms, FALSE)
           lipid   == select_atoms(combined_universe.atoms, TRUE)
           atoms1  == stretch_relative(combined_universe.atoms, lipid, protein, ratio)
           box1    == stretch_boxsize(boxsize, ratio)
           raw     == join(par.folder_path, RawName(n))
           u1      == [combined_universe EXCEPT !.atoms = atoms1]
       IN  IF prev \notin DOMAIN fs \/ box1.error /= ""
           THEN /\ pc' = "failed"
                /\ UNCHANGED <<fs, universe, boxsize, hist>>
           ELSE /\ boxsize' = box1.line
                /\ universe' = u1
                /\ fs' = change_boxsize(WriteUniverse(fs, raw, u1), raw, box1.line)
                /\ hist' = [hist EXCEPT !.boxScalings = @ + 1, !.lipidScalings = @ + 1,
                                        !.minCalls = 0, !.overlaps = <<>>,
                                        !.moved = <<>>, !.return_code = -1]
                /\ pc' = "min"
    /\ UNCHANGED <<n, ratio, par, fin, fout>>

\* the runs the engine may make of the raw artifact at this point
EngineRuns ==
    {EngineRun("grompp fails", <<>>, 0), EngineRun("mdrun fails", <<>>, 0),
     EngineRun("ran", ErrorLog, 0)}
    \cup {EngineRun("ran", CleanLog, c) : c \in RelaxMoves}
    \cup {EngineRun("ran", OverlapLog(a), 0) :
            a \in IF hist.retries < MaxRetries THEN 1..Len(universe.atoms) ELSE {}}

\* lines 292-302 of minimize: grompp and mdrun on file_to_process, under name
RunEngine(f, folder_path, file_to_process, name, run) ==
    LET tpr  == join(folder_path, name \o ".tpr")
        log  == join(folder_path, name \o ".log")
        gro  == join(folder_path, name \o ".gro")
        f1   == WriteFile(f, tpr, TextFile("tpr", <<f[file_to_process],
                                   f[join(folder_path, "topol.top")]>>))
        f2   == WriteFile(f1, log, TextFile("log", run.log))
    IN  IF run.kind = "grompp fails" THEN f
        ELSE IF run.kind = "mdrun fails" THEN f1
        ELSE IF MinimizeOutcome(run.log) = Success
             THEN WriteFile(f2, gro, GroFile(Relax(f[file_to_process].atoms, run.relax),
                                             f[file_to_process].box))
             ELSE f2

\* gromacs.grompp(.., **grompp_flags) and gromacs.mdrun(.., **mdrun_flags): the
\* keyword arguments the two tools get from minimize
EngineFlags(grompp_flags, mdrun_flags) == [grompp |-> grompp_flags, mdrun |-> mdrun_flags]

\* grompp_flags={"maxwarn": 1}
GromppFlags == <<Flag("maxwarn", 1)>>

\* minimize(file_to_process, folder_path, name, ..): how it ends
minimize(run) ==
    IF run.kind = "ran" THEN MinimizeOutcome(run.log)
    ELSE [kind |-> "InvocationError", atom |-> 0]

\* (a variant that runs minimize again after any failure)
AfterMinimize_RetryOnError(outcome) ==
    IF outcome.kind = "Success" THEN "loop"
    ELSE IF outcome.kind = "AtomOverlap" THEN "perturb"
    ELSE "min"

\* (a variant that gives up at the second overlap of a step)
AfterMinimize_GiveUp(outcome) ==
    IF outcome.kind = "Success" THEN "loop"
    ELSE IF outcome.kind = "AtomOverlap" /\ hist.overlaps = <<>> THEN "perturb"
    ELSE "failed"

\* what the caller of minimize does with its end: None leaves the while loop,
\* a number enters the retry, an exception leaves embed_in_lipids
AfterMinimize(outcome) ==
    IF outcome.kind = "Success" THEN "loop"
    ELSE IF outcome.kind = "AtomOverlap" THEN "perturb"
    ELSE "failed"

\* lines 464-474: one pass of the while loop up to the return of minimize
Minimize ==
    /\ pc = "min"
    /\ \E run \in EngineRuns :
         LET f1  == copyfile(fs, join(par.folder_path, "template.top"),
                             join(par.folder_path, "topol.top"))
             out == minimize(run)
             to  == AfterMinimize(out)
         IN  /\ fs' = RunEngine(f1, par.folder_path,
                                join(par.folder_path, RawName(n)), RunName(n), run)
             /\ pc' = to
             /\ n' = IF to = "loop" THEN n + 1 ELSE n
             /\ hist' = [hist EXCEPT
                           !.minCalls = @ + 1,
                           !.flags = EngineFlags(GromppFlags, par.mdrun_flags),
                           !.outcome = out.kind,
                           !.return_code = IF out.kind = "AtomOverlap" THEN out.atom ELSE @,
                           !.overlaps = IF out.kind = "AtomOverlap"
                                        THEN Append(@, out.atom) ELSE @,
                           !.retries = IF out.kind = "AtomOverlap" THEN @ + 1 ELSE @,
                           !.succeeded = IF out.kind = "Success" THEN @ \cup {n} ELSE @]
    /\ UNCHANGED <<universe, boxsize, ratio, par, fin, fout>>

\* sel[0].position = sel[0].position + np.array([1, 0, 0]), 1 Angstrom
Nudge(atoms, k) == [atoms EXCEPT ![k].pos = <<@[1] + 100, @[2], @[3]>>]

\* lines 475-482: the retry after an overlap
Perturb ==
    /\ pc = "perturb"
    /\ LET sel == select_bynum(universe.atoms, hist.return_code)
       IN  IF sel = <<>>
           THEN /\ pc' = "failed"
                /\ UNCHANGED <<fs, universe, hist>>
           ELSE LET atoms1 == Nudge(universe.atoms, sel[1])
                    u1     == [universe EXCEPT !.atoms = atoms1]
                    f1     == WriteUniverse(fs, Concat(par.folder_path, RawName(n)), u1)
                IN  /\ universe' = u1
                    /\ fs' = change_boxsize(f1, join(par.folder_path, RawName(n)), boxsize)
                    /\ hist' = [hist EXCEPT !.moved =
                                   Append(@, Moved(universe.atoms, atoms1))]
                    /\ pc' = "min"
    /\ UNCHANGED <<n, boxsize, ratio, par, fin, fout>>

\* (a variant that replaces the protein file as soon as one step is through)
Finish_AfterAnyStep ==
    /\ pc = "loop"
    /\ n > 1
    /\ fs' = copyfile(fs, join(par.folder_path, EmbedName(n - 1)), par.protein_path)
    /\ pc' = "done"
    /\ UNCHANGED <<n, universe, boxsize, ratio, par, hist, fin, fout>>

\* line 485: the result of the last step replaces the protein file
Finish ==
    /\ pc = "loop"
    /\ n > par.steps
    /\ LET last == join(par.folder_path, EmbedName(par.steps))
       IN  IF last \in DOMAIN fs
           THEN fs' = copyfile(fs, last, par.protein_path) /\ pc' = "done"
           ELSE fs' = fs /\ pc' = "failed"
    /\ UNCHANGED <<n, universe, boxsize, ratio, par, hist, fin, fout>>

Next == InitEmbed \/ StepBegin \/ Minimize \/ Perturb \/ Finish

Spec == Init /\ [][Next]_vars

(***************************************************************************)
(* Properties of embed_in_lipids                                           *)
(***************************************************************************)
OriginalProtein == InitialFiles(par)[par.protein_path]

Raw == join(par.folder_path, RawName(n))

\* C1: the file at protein_path keeps its content until the final copy, which
\* is made only after the minimization of every step 1..steps has returned
\* Success and puts the result of step `steps` there; a run that ends in a
\* fatal condition leaves the file as it was before the call.
C1_NoPartialCommit ==
    /\ pc /= "done" => fs[par.protein_path] = OriginalProtein
    /\ pc = "done" =>
         /\ hist.succeeded = 1..par.steps
         /\ fs[par.protein_path] = fs[join(par.folder_path, EmbedName(par.steps))]
         /\ fs[par.protein_path] /= OriginalProtein

\* a run that fails in its last step, after an overlap retry, with the
\* earlier steps minimized
C1_Witness ==
    /\ pc = "failed"
    /\ par.steps = MaxSteps
    /\ n = par.steps
    /\ hist.outcome \in {"FatalError", "InvocationError"}
    /\ hist.overlaps /= <<>>
    /\ fs[par.protein_path] = OriginalProtein

\* C2: within one step, k AtomOverlap results followed by Success make k + 1
\* invocations of minimize and k perturbations, the j-th of which moves the
\* atom whose number the j-th AtomOverlap reported and no other atom.
C2_RetryLoop ==
    /\ Len(hist.moved) = (IF pc = "perturb" THEN Len(hist.overlaps) - 1
                          ELSE Len(hist.overlaps))
    /\ \A j \in 1..Len(hist.moved) : hist.moved[j] = {hist.overlaps[j]}
    /\ pc \in {"min", "perturb"} => hist.minCalls = Len(hist.overlaps)
    /\ (pc \in {"loop", "done"} /\ n > 1) => hist.minCalls = Len(hist.overlaps) + 1

\* AtomOverlap(5) once and then Success: one perturbation, of atom 5, and two
\* invocations of minimize
C2_Witness ==
    /\ pc = "loop"
    /\ n > 1
    /\ hist.overlaps = <<5>>
    /\ hist.moved = <<{5}>>
    /\ hist.minCalls = 2

\* C3: once minimize has ended with FatalError the controller has failed, and
\* nothing follows: no invocation of minimize, no perturbation, no write of a
\* file, no further step.
C3_FatalStops ==
    [][hist.outcome = "FatalError" =>
          /\ pc = "failed"
          /\ UNCHANGED <<pc, n, fs, universe, boxsize, hist>>]_vars

\* a FatalError in a retry of the second step
C3_Witness ==
    /\ hist.outcome = "FatalError"
    /\ pc = "failed"
    /\ n = 2
    /\ Len(hist.overlaps) = 1

\* the identities of the atoms of the two input files, protein first
ExpectedIds ==
    [i \in 1..(par.n1 + par.n2) |->
        IF i <= par.n1 THEN <<"P", i>> ELSE <<"L", i - par.n1>>]

Ids(atoms) == [i \in 1..Len(atoms) |-> atoms[i].id]

\* C5: every structure file written during the run (embed_0, every raw
\* artifact, every file written in a retry, every minimized structure) and the
\* final structure hold the N1 + N2 atoms of the inputs, protein atoms first,
\* in the order of the input files; so does the snapshot in memory.
C5_AtomsStable ==
    /\ \A q \in DOMAIN fs :
         (fs[q].kind = "gro" /\ q \notin {par.protein_path, par.lipid_path})
            => Ids(fs[q].atoms) = ExpectedIds
    /\ pc = "done" => Ids(fs[par.protein_path].atoms) = ExpectedIds
    /\ pc \notin {"start"} => Ids(universe.atoms) = ExpectedIds

\* a finished run on two protein and three lipid atoms, with an overlap retry
C5_Witness ==
    /\ pc = "done"
    /\ par.n1 = 2
    /\ par.n2 = 3
    /\ hist.retries > 0
    /\ Len(fs[par.protein_path].atoms) = 5

RECURSIVE ExpectedXY(_, _)
\* a length of the input box scaled once by starting_scale, then k times by
\* the ratio, rounded to 5 decimals each time
ExpectedXY(b, k) ==
    IF k = 0 THEN RoundDiv(b * par.starting_scale.num, par.starting_scale.den)
    ELSE RoundDiv(ExpectedXY(b, k - 1) * ratio.num, ratio.den)

ExpectedBox(k) ==
    <<ExpectedXY(Box0Units[1], k), ExpectedXY(Box0Units[2], k), Box0Units[3]>>

\* C6: while step n is in progress (first attempt and every retry) the box of
\* its raw artifact and the running box line are the input box scaled once by
\* starting_scale and n times by the ratio in x and y, with the input z; the
\* box and the lipids have been scaled once in Init and once per step begun,
\* retries adding none.
C6_BoxSchedule ==
    /\ pc \in {"min", "perturb"} =>
         /\ fs[Raw].box = ExpectedBox(n)
         /\ BoxUnits(boxsize) = ExpectedBox(n)
         /\ hist.boxScalings = n + 1
         /\ hist.lipidScalings = n + 1
    /\ pc \in {"loop", "done"} =>
         /\ fs[join(par.folder_path, EmbedName(n - 1))].box = ExpectedBox(n - 1)
         /\ BoxUnits(boxsize) = ExpectedBox(n - 1)
         /\ hist.boxScalings = n
         /\ hist.lipidScalings = n

\* the second step, about to be minimized again after two overlap retries
C6_Witness ==
    /\ pc = "min"
    /\ n = 2
    /\ Len(hist.overlaps) = 2
    /\ fs[Raw].box = ExpectedBox(2)
    /\ fs[Raw].box[1] < Box0Units[1]
    /\ fs[Raw].box[3] = Box0Units[3]

\* the position of one atom relative to another
Rel(atoms, i, j) ==
    <<atoms[i].pos[1] - atoms[j].pos[1], atoms[i].pos[2] - atoms[j].pos[2],
      atoms[i].pos[3] - atoms[j].pos[3]>>

\* the protein atoms: the atoms of the protein file, which lie outside
\* lipid_selection
Protein(atoms) == {i \in 1..Len(atoms) : atoms[i].id[1] = "P" /\ ~atoms[i].lip}

\* the atoms outside lipid_selection, whichever file they come from
Outside(atoms) == {i \in 1..Len(atoms) : ~atoms[i].lip}

\* no protein atom has moved relative to another
Rigid(pre, post) ==
    \A i, j \in Protein(pre) : Rel(post, i, j) = Rel(pre, i, j)

\* the snapshot an operation of the controller starts from
InputAtoms == Merge(fs[par.protein_path].atoms, fs[par.lipid_path].atoms)

PreviousAtoms == fs[join(par.folder_path, EmbedName(n - 1))].atoms

WithinTolerance(r) ==
    LET s    == par.steps
        lhs(q) == IPow(q, s) * par.starting_scale.num * par.end_scale.den
        rhs    == par.end_scale.num * par.starting_scale.den * IPow(r.den, s)
    IN  /\ r.den = 100
        /\ lhs(r.num - 1) < rhs
        /\ rhs < lhs(r.num + 1)

\* C11: the ratio computed before the first step satisfies
\* starting_scale * ratio^steps = end_scale within tolerance, and no step and
\* no retry changes it afterwards.
C11_RatioFixed ==
    [][/\ pc' /= "start" => WithinTolerance(ratio')
       /\ pc /= "start" => ratio' = ratio]_vars

\* the second of two steps is in a retry and the ratio is still 0.91, the
\* square root of 0.95 / 1.15 to two decimals
C11_Witness ==
    /\ pc = "perturb"
    /\ n = 2
    /\ par.steps = 2
    /\ par.starting_scale = [num |-> 23, den |-> 20]
    /\ par.end_scale = [num |-> 19, den |-> 20]
    /\ ratio = [num |-> 91, den |-> 100]

\* the position of atom a after the perturbation of the retry
Perturbed(atoms, a) == <<atoms[a].pos[1] + 100, atoms[a].pos[2], atoms[a].pos[3]>>

\* C13: with or without a separator at the end of folder_path, the retry after
\* AtomOverlap(a) in step n writes the perturbed snapshot to the raw artifact
\* of step n, so that the file given to the next minimize of the step holds
\* atom a at its perturbed position and differs from the file of the attempt
\* before.
C13_AsClaimed ==
    [][(pc = "perturb" /\ pc' = "min") =>
          /\ fs'[Raw].atoms[hist.return_code].pos
                = Perturbed(universe.atoms, hist.return_code)
          /\ fs'[Raw].atoms /= fs[Raw].atoms]_vars

\* what does hold: the same when folder_path ends with a separator; without
\* one the perturbed snapshot goes to the file named folder_path +
\* "embed_raw<n>.gro", beside the folder, and the raw artifact keeps the atoms
\* of the attempt before
C13_ByFolder ==
    [][(pc = "perturb" /\ pc' = "min") =>
          LET a     == hist.return_code
              aside == Concat(par.folder_path, RawName(n))
          IN  /\ universe'.atoms[a].pos = Perturbed(universe.atoms, a)
              /\ fs'[aside].atoms = universe'.atoms
              /\ IF par.folder_path[Len(par.folder_path)] = "/"
                 THEN aside = Raw
                 ELSE /\ aside /= Raw
                      /\ fs'[Raw].atoms = fs[Raw].atoms]_vars

\* the snapshot of the initial embed, from the two input files
InitArtifactAtoms ==
    LET both == InputAtoms
    IN  stretch_relative(both, [j \in 1..par.n2 |-> par.n1 + j],
                         [i \in 1..par.n1 |-> i], par.starting_scale)

Heights(atoms) == [i \in 1..Len(atoms) |-> atoms[i].pos[3]]

\* C15: the steps run in the order 1..steps; step n loads its snapshot from
\* the artifact of step n-1 (embed_0 of the initial embed for n = 1, the
\* minimized structure of step n-1 afterwards, never a raw artifact); nothing
\* of step n is scaled or minimized before the minimization of step n-1 has
\* returned Success; and each step is completed by one successful
\* minimization.
C15_StepOrder ==
    [][/\ n' \in {n, n + 1}
       /\ pc' /= "start" => hist'.succeeded = 1..(n' - 1)
       /\ n' = n + 1 =>
            \/ pc = "start" /\ n = 0
            \/ pc = "min" /\ hist'.outcome = "Success" /\ hist'.minCalls = hist.minCalls + 1
       /\ (pc = "loop" /\ pc' = "min") =>
            LET prev    == join(par.folder_path, EmbedName(n - 1))
                rawPrev == join(par.folder_path, RawName(n - 1))
            IN  /\ Heights(universe'.atoms) = Heights(fs[prev].atoms)
                /\ \A i \in 1..Len(universe'.atoms) :
                     ~universe'.atoms[i].lip => universe'.atoms[i] = fs[prev].atoms[i]
                /\ n = 1 => fs[prev].atoms = InitArtifactAtoms
                /\ n > 1 =>
                     /\ \E c \in RelaxMoves :
                          fs[prev].atoms = Relax(fs[rawPrev].atoms, c)
                     /\ Heights(universe'.atoms) /= Heights(fs[rawPrev].atoms)
                /\ hist'.minCalls = 0
      ]_vars

\* the second step has loaded its snapshot after the first was minimized with
\* one retry
C15_Witness ==
    /\ pc = "min"
    /\ n = 2
    /\ hist.succeeded = {1}
    /\ hist.retries = 1
    /\ hist.minCalls = 0
    /\ Heights(universe.atoms) =
          Heights(fs[join(par.folder_path, EmbedName(1))].atoms)

Template == join(par.folder_path, "template.top")

Topology == join(par.folder_path, "topol.top")

\* C17: every invocation of minimize by embed_in_lipids, first attempt or
\* retry, in every step, comes right after the copy of template.top to
\* topol.top, so that it starts with topol.top holding the content of
\* template.top; it gives maxwarn=1 to grompp and the mdrun_flags of the caller,
\* unchanged, to mdrun.
C17_TopologyRefreshed ==
    [][pc = "min" =>
          /\ hist'.minCalls = hist.minCalls + 1
          /\ fs'[Template] = fs[Template]
          /\ fs'[Topology] = fs[Template]
          /\ hist'.outcome /= "InvocationError" =>
               fs'[join(par.folder_path, RunName(n) \o ".tpr")].text
                  = <<fs[Raw], fs[Template]>>
          /\ hist'.flags.grompp = <<Flag("maxwarn", 1)>>
          /\ hist'.flags.mdrun = par.mdrun_flags
      ]_vars

\* the first minimization of a run with mdrun_flags {"ntomp": 6} has reported
\* an overlap: the topology left by an earlier run has been replaced
C17_Witness ==
    /\ pc = "perturb"
    /\ n = 1
    /\ hist.minCalls = 1
    /\ par.mdrun_flags = <<Flag("ntomp", 6)>>
    /\ hist.flags.mdrun = <<Flag("ntomp", 6)>>
    /\ fs[Topology] = fs[Template]
    /\ InitialFiles(par)[Topology] /= fs[Template]

\* the files the run has made and not removed
LeftBehind == (DOMAIN fs) \ (DOMAIN InitialFiles(par))

\* C19: when embed_in_lipids returns normally, the numbered structure files,
\* the run inputs and the logs it has made exist no longer: of its files only
\* the final structure, at protein_path, remains.
C19_AsClaimed == pc = "done" => LeftBehind = {}

\* what does hold: nothing is removed; for every step the raw artifact, the
\* run input, the log and the minimized structure are still there at the end,
\* with embed_0.gro
C19_NothingRemoved ==
    /\ [][DOMAIN fs \subseteq DOMAIN fs']_vars
    /\ [](pc = "done" =>
            /\ join(par.folder_path, EmbedName(0)) \in LeftBehind
            /\ \A k \in 1..par.steps :
                 /\ join(par.folder_path, RawName(k)) \in LeftBehind
                 /\ join(par.folder_path, EmbedName(k)) \in LeftBehind
                 /\ join(par.folder_path, RunName(k) \o ".tpr") \in LeftBehind
                 /\ join(par.folder_path, RunName(k) \o ".log") \in LeftBehind)

(***************************************************************************)
(* Termination.  embed_in_lipids runs on its own thread of control and     *)
(* every tool it calls returns: a step that can be taken is taken.  The    *)
(* engine reports at most MaxRetries overlaps in a run, so every step      *)
(* gets an outcome other than AtomOverlap in the end.                      *)
(***************************************************************************)
Terminated == pc \in {"done", "failed"}

\* the control of embed_in_lipids moves on: each of its steps is taken at one
\* position and leaves it, and only the end of the run has no step
Advance ==
    /\ ~Terminated
    /\ pc' \in {"loop", "min", "perturb", "done", "failed"} \ {pc}

SpecFair == Init /\ [][Next]_vars /\ WF_pc(Advance)

\* C16: the retry loop has no cap.  The run reaches Done only with a Success
\* in every step and fails only on an outcome that is neither Success nor
\* AtomOverlap, never on the number of retries; after every AtomOverlap, however
\* many came before in the step, the controller perturbs and minimizes the
\* same step again, neither done nor failed; and when every step gets an
\* outcome other than AtomOverlap in the end, the run terminates, done or
\* failed.
C16_NoRetryCap ==
    /\ [](/\ pc = "done" => hist.succeeded = 1..par.steps
          /\ pc = "failed" => hist.outcome \in {"FatalError", "InvocationError"}
          /\ pc = "perturb" => hist.outcome = "AtomOverlap")
    /\ [][/\ (pc = "min" /\ hist'.outcome = "AtomOverlap") => (pc' = "perturb" /\ n' = n)
          /\ (pc = "min" /\ hist'.outcome = "Success") => (pc' = "loop" /\ n' = n + 1)
          /\ pc = "perturb" => (pc' = "min" /\ n' = n)]_vars
    /\ <>Terminated

\* every overlap the engine reports in the run has come in the first step,
\* and the controller is about to retry once more
C16_Witness ==
    /\ pc = "perturb"
    /\ n = 1
    /\ hist.retries = MaxRetries
    /\ Len(hist.overlaps) = MaxRetries
    /\ hist.minCalls = MaxRetries

(***************************************************************************)
(* The functions on their own: each specification draws the arguments of   *)
(* one function and applies it.                                            *)
(***************************************************************************)
Called(f, args) == [done |-> TRUE, val |-> [fn |-> f, args |-> args]]

Returned(v) == [done |-> TRUE, val |-> v]

\* the variables of embed_in_lipids, when no call of it is under way
NoCall ==
    /\ pc = "none"
    /\ n = 0
    /\ universe = [atoms |-> <<>>, dims |-> <<>>]
    /\ boxsize = <<>>
    /\ ratio = One
    /\ par = [steps |-> 0]
    /\ hist = NoHist

NoFiles == [q \in {} |-> 0]

RECURSIVE SeqsUpTo(_, _)
\* the sequences over S of length at most k
SeqsUpTo(S, k) ==
    IF k = 0 THEN {<<>>}
    ELSE LET shorter == SeqsUpTo(S, k - 1)
         IN  shorter \cup {Append(q, x) : q \in shorter, x \in S}

(***************************************************************************)
(* stretch_boxsize on box lines                                            *)
(***************************************************************************)
MaxFields == 4

\* lengths in units of 1e-5 nm: 0, 0.00005, 7.12345, 12.345
BoxValues == {0, 5, 712345, 1234500}

BoxFactors == { [num |-> 23, den |-> 20], [num |-> 91, den |-> 100], [num |-> 3, den |-> 1] }

\* a box line as a .gro file holds it, and as stretch_boxsize returns it
RenderLine(values, style) ==
    JoinFields([k \in 1..Len(values) |->
                   IF style = "gro" THEN GroField(values[k])
                   ELSE rjust(FloatStr(values[k]), 10)]) \o <<"\n">>

BoxInputs ==
    { [values |-> v, line |-> RenderLine(v, st), scale_factor |-> f] :
        v \in SeqsUpTo(BoxValues, MaxFields) \ {<<>>},
        st \in {"gro", "str"}, f \in BoxFactors }

InitBox ==
    /\ NoCall
    /\ fs = NoFiles
    /\ \E a \in BoxInputs : fin = Called("stretch_boxsize", a)
    /\ fout = Idle

CallStretchBoxsize ==
    /\ fin.val.fn = "stretch_boxsize"
    /\ ~fout.done
    /\ fout' = Returned(stretch_boxsize(fin.val.args.line, fin.val.args.scale_factor))
    /\ UNCHANGED <<pc, n, fs, universe, boxsize, ratio, par, hist, fin>>

NextBox == CallStretchBoxsize

SpecBox == InitBox /\ [][NextBox]_vars

\* the fields of a rendered line: its text cut into pieces of width 10
Chunks(line) == [k \in 1..((Len(line) - 1) \div 10) |->
                    SubSeq(line, 10 * (k - 1) + 1, 10 * k)]

\* a width-10 field is right-justified: blanks, then one token
RightJustified(chunk) ==
    /\ Len(split(chunk)) = 1
    /\ chunk[10] /= " "

\* C8: for every numeric box line and positive factor stretch_boxsize returns
\* a line with as many fields, the first two being the inputs times the factor
\* rounded to 5 decimals and every other field unchanged, rendered as
\* right-justified fields of width 10 with a newline at the end.
C8_AsClaimed ==
    fout.done =>
        LET a   == fin.val.args
            out == fout.val
            k   == Len(a.values)
        IN  /\ out.error = ""
            /\ Len(out.line) = 10 * k + 1
            /\ out.line[Len(out.line)] = "\n"
            /\ \A i \in 1..k : RightJustified(Chunks(out.line)[i])
            /\ BoxUnits(out.line) =
                  [i \in 1..k |-> IF i <= 2
                                  THEN RoundDiv(a.values[i] * a.scale_factor.num,
                                                a.scale_factor.den)
                                  ELSE a.values[i]]

\* what does hold: the same for lines of at most three fields, and an
\* IndexError for longer ones
C8_UpToThreeFields ==
    fout.done =>
        IF Len(fin.val.args.values) <= 3 THEN C8_AsClaimed
        ELSE fout.val.error = "IndexError"

(***************************************************************************)
(* minimize on logs                                                        *)
(***************************************************************************)
MaxLogLines == 3

\* the lines of a log: plain text, the overlap report as mdrun prints it (the
\* atom number ends the line), an error, and lines carrying both markers
LogLines ==
    { <<Txt>>, <<Txt, Inf, Num(5)>>, <<Txt, Inf, Num(42)>>, <<Err, Txt>>,
      <<Err, Txt, Inf, Num(7)>>, <<Txt, Inf, Num(9), Err>> }

InitMinimize ==
    /\ NoCall
    /\ fs = NoFiles
    /\ \E log \in SeqsUpTo(LogLines, MaxLogLines) : fin = Called("minimize", log)
    /\ fout = Idle

CallMinimize ==
    /\ fin.val.fn = "minimize"
    /\ ~fout.done
    /\ fout' = Returned(MinimizeOutcome(fin.val.args))
    /\ UNCHANGED <<pc, n, fs, universe, boxsize, ratio, par, hist, fin>>

NextMinimize == CallMinimize

SpecMinimize == InitMinimize /\ [][NextMinimize]_vars

HasMarker(line) == \E i \in 1..Len(line) : line[i].t = "inf on atom "

HasError(line) == \E i \in 1..Len(line) : line[i].t = "ERROR"

\* the number that follows the marker in a line
NumberAfterMarker(line) ==
    LET i == CHOOSE i \in 1..Len(line) : line[i].t = "inf on atom "
    IN  line[i + 1].v

\* C4: minimize returns AtomOverlap(k) when the first line with the marker
\* "inf on atom ", followed by k, comes before every line with "ERROR"; it fails
\* with FatalError when some line has "ERROR" and none has the marker; it
\* returns Success when no line has either.
C4_Classification ==
    fout.done =>
        LET log == fin.val.args
            L   == 1..Len(log)
        IN  /\ \A i \in L :
                 ( /\ HasMarker(log[i])
                   /\ \A j \in 1..(i - 1) : ~HasMarker(log[j])
                   /\ \A j \in 1..i : ~HasError(log[j]) )
                 => fout.val = AtomOverlap(NumberAfterMarker(log[i]))
            /\ ( (\E i \in L : HasError(log[i])) /\ (\A i \in L : ~HasMarker(log[i])) )
                 => fout.val = FatalError
            /\ (\A i \in L : ~HasError(log[i]) /\ ~HasMarker(log[i]))
                 => fout.val = Success

\* an overlap report for atom 42 followed by an error line
C4_Witness ==
    /\ fout.done
    /\ fin.val.fn = "minimize"
    /\ fin.val.args = << <<Txt>>, <<Txt, Inf, Num(42)>>, <<Err, Txt>> >>
    /\ fout.val = AtomOverlap(42)

HasBoth(log) ==
    /\ \E i \in 1..Len(log) : HasMarker(log[i])
    /\ \E i \in 1..Len(log) : HasError(log[i])

\* the first line of the log with the marker
FirstMarkerLine(log) ==
    log[CHOOSE i \in 1..Len(log) :
            HasMarker(log[i]) /\ \A j \in 1..(i - 1) : ~HasMarker(log[j])]

\* C14: for every log with both a line holding "inf on atom " and a line
\* holding "ERROR", in either order or on one line, minimize returns AtomOverlap
\* with the number of the overlap line and does not fail.
C14_AsClaimed ==
    (fout.done /\ HasBoth(fin.val.args)) =>
        fout.val = AtomOverlap(NumberAfterMarker(FirstMarkerLine(fin.val.args)))

\* what does hold: the first line with either marker decides; a line with the
\* marker gives AtomOverlap when the number ends the line (text after the
\* number makes int() raise), a line with ERROR alone ends in FatalError even
\* if an overlap line follows
C14_FirstLineDecides ==
    (fout.done /\ HasBoth(fin.val.args)) =>
        LET log   == fin.val.args
            first == log[CHOOSE i \in 1..Len(log) :
                           /\ HasMarker(log[i]) \/ HasError(log[i])
                           /\ \A j \in 1..(i - 1) : ~HasMarker(log[j]) /\ ~HasError(log[j])]
        IN  IF ~HasMarker(first) THEN fout.val = FatalError
            ELSE IF first[Len(first)].t = "num"
                 THEN fout.val = AtomOverlap(NumberAfterMarker(first))
            ELSE fout.val = IntError

(***************************************************************************)
(* stretch_relative on groups of one snapshot                              *)
(***************************************************************************)
MaxStretchAtoms == 3

StretchFactors == { [num |-> 1, den |-> 1], [num |-> 23, den |-> 20], [num |-> 2, den |-> 3] }

\* two arrangements of k atoms
Arrangement(c, k) ==
    [i \in 1..k |-> [id |-> <<"A", i>>, lip |-> FALSE,
                     pos |-> <<100 * c * i - 150, 70 * i * i - 30 * c, 10 * i + c>>]]

\* a group of a snapshot of k atoms: the increasing sequence of a set of indices
RECURSIVE GroupOf(_, _)
GroupOf(S, i) == IF S = {} THEN <<>>
                 ELSE IF i \in S THEN <<i>> \o GroupOf(S \ {i}, i + 1)
                 ELSE GroupOf(S, i + 1)

StretchInputs ==
    { [atoms |-> Arrangement(c, MaxStretchAtoms), to_strech |-> GroupOf(m, 1),
       anchor |-> GroupOf(a, 1), scale_factor |-> f] :
        c \in 1..2, m \in SUBSET (1..MaxStretchAtoms),
        a \in (SUBSET (1..MaxStretchAtoms)) \ {{}}, f \in StretchFactors }

InitStretch ==
    /\ NoCall
    /\ fs = NoFiles
    /\ \E a \in StretchInputs : fin = Called("stretch_relative", a)
    /\ fout = Idle

CallStretchRelative ==
    /\ fin.val.fn = "stretch_relative"
    /\ ~fout.done
    /\ LET a == fin.val.args
       IN  fout' = Returned(stretch_relative(a.atoms, a.to_strech, a.anchor,
                                             a.scale_factor))
    /\ UNCHANGED <<pc, n, fs, universe, boxsize, ratio, par, hist, fin>>

NextStretch == CallStretchRelative

SpecStretch == InitStretch /\ [][NextStretch]_vars

Members(group) == {group[i] : i \in 1..Len(group)}

\* C9: stretch_relative changes no z coordinate and no coordinate of an atom
\* outside the moving group; with scale_factor = 1 it changes no position; and
\* every atom of the moving group is scaled about the centroid the anchor
\* group had before the call moved any atom.
C9_StretchFrame ==
    fout.done =>
        LET a   == fin.val.args
            out == fout.val
        IN  /\ Len(out) = Len(a.atoms)
            /\ \A i \in 1..Len(out) : out[i].pos[3] = a.atoms[i].pos[3]
            /\ \A i \in (1..Len(out)) \ Members(a.to_strech) : out[i] = a.atoms[i]
            /\ (a.scale_factor.num = a.scale_factor.den) => out = a.atoms
            /\ \A i \in Members(a.to_strech) :
                 out[i].pos = StretchedPos(a.atoms[i].pos, Center(a.atoms, a.anchor),
                                           a.scale_factor)

\* all three atoms moved about the centroid of the first two, which are
\* among the atoms moved
C9_Witness ==
    /\ fout.done
    /\ fin.val.fn = "stretch_relative"
    /\ fin.val.args.to_strech = <<1, 2, 3>>
    /\ fin.val.args.anchor = <<1, 2>>
    /\ fin.val.args.scale_factor = [num |-> 23, den |-> 20]
    /\ Moved(fin.val.args.atoms, fout.val) = {1, 2, 3}

(***************************************************************************)
(* generate_membrane_index on the default groups of a structure            *)
(***************************************************************************)
MaxGroups == 3

\* os.path.dirname of a path with a file name at its end
dirname(path) == SubSeq(path, 1, Len(path) - 2)

\* os.remove(path)
remove(f, path) == [q \in (DOMAIN f) \ {path} |-> f[q]]

\* a system of four atoms (protein, lipid, water, ion) and the groups that
\* index generation may derive for it
NdxAtoms == ProteinAtoms(1) \o LipidAtoms(3, FALSE)

GroupNames == {"System", "Protein", "Other", "SOL", "Water_and_ions"}

GroupAtoms(name) ==
    CASE name = "System"         -> {1, 2, 3, 4}
      [] name = "Protein"        -> {1}
      [] name = "Other"          -> {2}
      [] name = "SOL"            -> {3}
      [] name = "Water_and_ions" -> {3, 4}

Group(name) == [name |-> name, atoms |-> GroupAtoms(name)]

\* the ordered lists of distinct groups, of at most MaxGroups groups
GroupLists ==
    { [i \in 1..Len(q) |-> Group(q[i])] :
        q \in { q \in SeqsUpTo(GroupNames, MaxGroups) :
                  /\ q /= <<>>
                  /\ \A i, j \in 1..Len(q) : q[i] = q[j] => i = j } }

\* a structure file, with the default groups the engine derives from it
SystemFile(groups) == [kind |-> "gro", atoms |-> NdxAtoms, box |-> BoxLine0, text |-> groups]

\* the lines given to make_ndx
Blank == [op |-> "", k |-> 0, name |-> ""]

Quit == [op |-> "q", k |-> 0, name |-> ""]

Complement(k) == [op |-> "!", k |-> k, name |-> ""]

Rename(k, name) == [op |-> "name", k |-> k, name |-> name]

\* " | ".join([f"r {res}" for res in exclude_res])
Residues(exclude_res) == [op |-> "r", k |-> 0, name |-> "", res |-> exclude_res]

\* f"!{a} & {b}"
ComplementAnd(a, b) == [op |-> "!&", k |-> a, name |-> "", j |-> b]

\* the residue of an atom of the system: each of the four atoms is one residue
resid(i) == i

\* one line of make_ndx on its list of groups, numbered from 0: "!k" appends
\* the complement of group k, "name k x" renames group k, "r a | r b" appends
\* the atoms of the residues named, "!a & b" appends the atoms of group b
\* outside group a, a line naming no group leaves the list alone
NdxLine(groups, all, cmd) ==
    IF cmd.op = "!" /\ cmd.k < Len(groups)
      THEN Append(groups, [name |-> "!" \o groups[cmd.k + 1].name,
                           atoms |-> all \ groups[cmd.k + 1].atoms])
    ELSE IF cmd.op = "name" /\ cmd.k < Len(groups)
      THEN [groups EXCEPT ![cmd.k + 1].name = cmd.name]
    ELSE IF cmd.op = "r"
      THEN Append(groups, [name |-> "r",
                           atoms |-> {i \in all : \E m \in 1..Len(cmd.res) :
                                                    resid(i) = cmd.res[m]}])
    ELSE IF cmd.op = "!&" /\ cmd.k < Len(groups) /\ cmd.j < Len(groups)
      THEN Append(groups, [name |-> "!" \o groups[cmd.k + 1].name \o "_&_"
                                        \o groups[cmd.j + 1].name,
                           atoms |-> groups[cmd.j + 1].atoms \ groups[cmd.k + 1].atoms])
    ELSE groups

RECURSIVE NdxLines(_, _, _)
NdxLines(groups, all, input) ==
    IF input = <<>> \/ Head(input).op = "q" THEN groups
    ELSE NdxLines(NdxLine(groups, all, Head(input)), all, Tail(input))

\* gromacs.make_ndx(f=..., o=..., input=[...]): the default groups of f, changed
\* by the lines of input, are written to o
make_ndx(files, f, o, input) ==
    WriteFile(files, o,
              TextFile("ndx", NdxLines(files[f].text, 1..Len(files[f].atoms), input)))

\* one invocation of a tool or of a file operation: what it writes and the
\* input it is given
Invocation(tool, o, input) == [tool |-> tool, o |-> o, input |-> input]

\* gromacs.cbook.get_ndx_groups(path)
get_ndx_groups(files, path) == files[path].text

\* (a variant that takes the first entry when x is missing)
index_OrFirst(list, x) ==
    IF \E i \in 1..Len(list) : list[i] = x
    THEN (CHOOSE i \in 1..Len(list) : list[i] = x /\ \A j \in 1..(i - 1) : list[j] /= x) - 1
    ELSE 0

\* list.index(x), or -1 where Python raises ValueError
index(list, x) ==
    IF \E i \in 1..Len(list) : list[i] = x
    THEN (CHOOSE i \in 1..Len(list) : list[i] = x /\ \A j \in 1..(i - 1) : list[j] /= x) - 1
    ELSE -1

\* the files after the call, and the list it returns
parse_indexkey_to_list(files, file_to_process) ==
    LET temp       == join(dirname(file_to_process), "temp.ndx")
        made       == make_ndx(files, file_to_process, temp, <<Blank, Quit>>)
        raw_output == get_ndx_groups(made, temp)
    IN  [fs |-> remove(made, temp),
         output_list |-> [i \in 1..Len(raw_output) |-> raw_output[i].name],
         calls |-> <<Invocation("make_ndx", temp, <<Blank, Quit>>),
                     Invocation("remove", temp, <<>>)>>]

\* the input of the call of make_ndx in generate_membrane_index
MembraneInput(index_list, water_ions_index) ==
    <<Complement(water_ions_index), Rename(water_ions_index + 1, "Membrane"), Quit>>

\* the files after the call, and the exception it ends with, if any
generate_membrane_index(files, file_to_process, folder_path) ==
    LET parsed           == parse_indexkey_to_list(files, file_to_process)
        index_list       == parsed.output_list
        water_ions_index == index(index_list, "Water_and_ions")
    IN  IF water_ions_index = -1
        THEN [fs |-> parsed.fs, error |-> "ValueError", calls |-> parsed.calls]
        ELSE [fs |-> make_ndx(parsed.fs, file_to_process, join(folder_path, "index.ndx"),
                              MembraneInput(index_list, water_ions_index)),
              error |-> "",
              calls |-> Append(parsed.calls,
                               Invocation("make_ndx", join(folder_path, "index.ndx"),
                                          MembraneInput(index_list, water_ions_index)))]

SystemPath == <<"work", "/", "system.gro">>

InitIndex ==
    /\ NoCall
    /\ \E g \in GroupLists : fs = WriteFile(NoFiles, SystemPath, SystemFile(g))
    /\ \E d \in FolderPaths :
         fin = Called("generate_membrane_index",
                      [file_to_process |-> SystemPath, folder_path |-> d])
    /\ fout = Idle

CallGenerateMembraneIndex ==
    /\ fin.val.fn = "generate_membrane_index"
    /\ ~fout.done
    /\ LET r == generate_membrane_index(fs, fin.val.args.file_to_process,
                                        fin.val.args.folder_path)
       IN  /\ fs' = r.fs
           /\ fout' = Returned([error |-> r.error, calls |-> r.calls])
    /\ UNCHANGED <<pc, n, universe, boxsize, ratio, par, hist, fin>>

NextIndex == CallGenerateMembraneIndex

SpecIndex == InitIndex /\ [][NextIndex]_vars

DefaultGroups == fs[SystemPath].text

IndexPath == join(fin.val.args.folder_path, "index.ndx")

HasWaterAndIons == \E i \in 1..Len(DefaultGroups) : DefaultGroups[i].name = "Water_and_ions"

\* the written index holds the default groups with their names at their
\* handles, followed by one new group, named Membrane, of the atoms outside
\* Water_and_ions
MembraneAppended ==
    /\ fout.val.error = ""
    /\ IndexPath \in DOMAIN fs
    /\ LET g == fs[IndexPath].text
       IN  /\ Len(g) = Len(DefaultGroups) + 1
           /\ \A i \in 1..Len(DefaultGroups) : g[i] = DefaultGroups[i]
           /\ g[Len(g)] = [name |-> "Membrane",
                           atoms |-> GroupAtoms("System") \ GroupAtoms("Water_and_ions")]

\* C10: for every list of default groups that holds Water_and_ions, at any
\* position, generate_membrane_index writes an index in which the group named
\* Membrane is the new complement of Water_and_ions and every default group
\* keeps its name and handle.
C10_AsClaimed == (fout.done /\ HasWaterAndIons) => MembraneAppended

\* what does hold: the same when Water_and_ions is the last default group;
\* otherwise the default group after it is renamed and the complement keeps
\* the name index generation gave it
C10_WhenLast ==
    (fout.done /\ HasWaterAndIons) =>
        LET w == index([i \in 1..Len(DefaultGroups) |-> DefaultGroups[i].name],
                       "Water_and_ions")
            g == fs[IndexPath].text
        IN  IF w + 1 = Len(DefaultGroups) THEN MembraneAppended
            ELSE /\ g[w + 2] = [name |-> "Membrane", atoms |-> DefaultGroups[w + 2].atoms]
                 /\ g[Len(g)].name = "!Water_and_ions"
                 /\ \A i \in 1..Len(g) : g[i].name = "Membrane" => i = w + 2

(***************************************************************************)
(* generate_posre and solvate_ions, and the three callers of               *)
(* parse_indexkey_to_list side by side                                     *)
(***************************************************************************)
\* gromacs.genrestr(f=..., o=..., n=..., input=[str(k)]): restraints for
\* group k of the index n, or of the default groups of f when no index is given
genrestr(files, f, o, ndx, k) ==
    LET groups == IF ndx = <<>> THEN files[f].text ELSE files[ndx].text
    IN  IF k < Len(groups) THEN WriteFile(files, o, TextFile("itp", <<groups[k + 1]>>))
        ELSE files

Restraint(o, ndx, k) == [tool |-> "genrestr", o |-> o, input |-> <<k>>, n |-> ndx]

\* (a variant that asks for the first group appended, the excluded residues)
RefinedHandle_Excluded(current_index_list) == Len(current_index_list)

\* str(len(current_index_list) + 1)
RefinedHandle(current_index_list) == Len(current_index_list) + 1

\* the files after the call, the exception it ends with, if any, and its
\* invocations in order
generate_posre(files, file_to_process, folder_path, group, exclude_res) ==
    LET parsed             == parse_indexkey_to_list(files, file_to_process)
        current_index_list == parsed.output_list
        group_index        == index(current_index_list, group)
        temp               == join(folder_path, "temp.ndx")
        posre              == join(folder_path, "posre.itp")
        input == <<Residues(exclude_res),
                   ComplementAnd(Len(current_index_list), group_index), Quit>>
    IN  IF group_index = -1
        THEN [fs |-> parsed.fs, error |-> "ValueError", calls |-> parsed.calls]
        ELSE IF Len(exclude_res) > 0
        THEN [fs |-> remove(genrestr(make_ndx(parsed.fs, file_to_process, temp, input),
                                     file_to_process, posre, temp,
                                     RefinedHandle(current_index_list)),
                            temp),
              error |-> "",
              calls |-> parsed.calls \o
                        <<Invocation("make_ndx", temp, input),
                          Restraint(posre, temp, RefinedHandle(current_index_list)),
                          Invocation("remove", temp, <<>>)>>]
        ELSE [fs |-> genrestr(parsed.fs, file_to_process, posre, <<>>, group_index),
              error |-> "",
              calls |-> Append(parsed.calls, Restraint(posre, <<>>, group_index))]

\* gromacs.solvate(cp=..., o=..., p=...): the structure with solvent, whose
\* default groups are the engine's, and the topology with the solvent added
solvate(files, cp, o, p, groups) ==
    WriteFile(WriteFile(files, o, [files[cp] EXCEPT !.text = groups]),
              p, TextFile("top", Append(files[p].text, "SOL")))

\* gromacs.grompp(f=..., c=..., p=..., o=...)
grompp(files, f, c, p, o) == WriteFile(files, o, TextFile("tpr", <<files[c], files[p]>>))

\* gromacs.genion(s=..., o=..., p=..., input=[str(k)]): ions take the place of
\* atoms of group k of the structure in s
genion(files, s, o, p, k) ==
    LET structure == files[s].text[1]
        groups    == structure.text
    IN  IF k < Len(groups)
        THEN WriteFile(WriteFile(files, o,
                                 [structure EXCEPT !.text =
                                     Append(@, [name |-> "NA_CL",
                                                atoms |-> groups[k + 1].atoms])]),
                       p, TextFile("top", Append(files[p].text, "NA CL")))
        ELSE files

\* shutil.move(src, dst)
move(files, src, dst) == remove(WriteFile(files, dst, files[src]), src)

\* (a variant that adds ions whatever the concentration)
WantsIons_Always(ion_concentration) == TRUE

\* if ion_concentration > 0
WantsIons(ion_concentration) == ion_concentration > 0

\* the files after the call, the exception it ends with, if any, and its
\* invocations in order; `solvated` are the default groups of the structure
\* that solvation produces
solvate_ions(files, file_to_process, folder_path, ion_concentration, solvated) ==
    LET output_file      == join(folder_path, "solvated.gro")
        topology_file    == join(folder_path, "topol.top")
        output_file_ions == join(folder_path, "solvated_ions.gro")
        tpr              == join(folder_path, "ions.tpr")
        f1 == copyfile(files, join(folder_path, "template.top"), topology_file)
        f2 == solvate(f1, file_to_process, output_file, topology_file, solvated)
        c2 == <<Invocation("copyfile", topology_file, <<>>),
                Invocation("solvate", output_file, <<>>)>>
        f3 == grompp(f2, join(folder_path, "minim.mdp"), output_file, topology_file, tpr)
        parsed        == parse_indexkey_to_list(f3, output_file)
        solvent_index == index(parsed.output_list, "SOL")
        c3 == c2 \o <<Invocation("grompp", tpr, <<>>)>> \o parsed.calls
        f4 == genion(parsed.fs, tpr, output_file_ions, topology_file, solvent_index)
    IN  IF ~WantsIons(ion_concentration) THEN [fs |-> f2, error |-> "", calls |-> c2]
        ELSE IF solvent_index = -1
        THEN [fs |-> parsed.fs, error |-> "ValueError", calls |-> c3]
        ELSE [fs |-> move(f4, output_file_ions, output_file),
              error |-> "",
              calls |-> c3 \o <<Invocation("genion", output_file_ions, <<solvent_index>>),
                                Invocation("move", output_file, <<>>)>>]

\* exclude_res: none, one residue, two residues
ExcludeLists == { <<>>, <<2>>, <<2, 3>> }

\* ion_concentration, in units of 0.01 mol/l
Concentrations == { -15, 0, 15 }

\* the files of the folder before a call
FolderFiles(g) ==
    LET f1 == WriteFile(NoFiles, SystemPath, SystemFile(g))
        f2 == WriteFile(f1, <<"work", "/", "template.top">>, TextFile("top", <<"template">>))
        f3 == WriteFile(f2, <<"work", "/", "topol.top">>,
                        TextFile("top", <<"left by an earlier run">>))
    IN  WriteFile(f3, <<"work", "/", "minim.mdp">>, TextFile("mdp", <<"minim">>))

\* the default groups of the solvated structure: those of the structure given,
\* and the solvent after them where solvation has added some
Solvations(g) ==
    IF \E m \in 1..Len(g) : g[m].name = "SOL" THEN {g}
    ELSE {g, Append(g, Group("SOL"))}

ResolverCalls(g) ==
    { Called("generate_membrane_index",
             [file_to_process |-> SystemPath, folder_path |-> d]) : d \in FolderPaths }
    \cup
    { Called("generate_posre",
             [file_to_process |-> SystemPath, folder_path |-> d, group |-> gn,
              exclude_res |-> x]) :
        d \in FolderPaths, gn \in GroupNames, x \in ExcludeLists }
    \cup
    { Called("solvate_ions",
             [file_to_process |-> SystemPath, folder_path |-> d,
              ion_concentration |-> c, solvated |-> sg]) :
        d \in FolderPaths, c \in Concentrations, sg \in Solvations(g) }

InitResolver ==
    /\ NoCall
    /\ \E g \in GroupLists :
         /\ fs = FolderFiles(g)
         /\ fin \in ResolverCalls(g)
    /\ fout = Idle

CallGeneratePosre ==
    /\ fin.val.fn = "generate_posre"
    /\ ~fout.done
    /\ LET a == fin.val.args
           r == generate_posre(fs, a.file_to_process, a.folder_path, a.group,
                               a.exclude_res)
       IN  /\ fs' = r.fs
           /\ fout' = Returned([error |-> r.error, calls |-> r.calls])
    /\ UNCHANGED <<pc, n, universe, boxsize, ratio, par, hist, fin>>

CallSolvateIons ==
    /\ fin.val.fn = "solvate_ions"
    /\ ~fout.done
    /\ LET a == fin.val.args
           r == solvate_ions(fs, a.file_to_process, a.folder_path,
                             a.ion_concentration, a.solvated)
       IN  /\ fs' = r.fs
           /\ fout' = Returned([error |-> r.error, calls |-> r.calls])
    /\ UNCHANGED <<pc, n, universe, boxsize, ratio, par, hist, fin>>

NextResolver == CallGenerateMembraneIndex \/ CallGeneratePosre \/ CallSolvateIons

SpecResolver == InitResolver /\ [][NextResolver]_vars

Names(groups) == {groups[i].name : i \in 1..Len(groups)}

NameList(groups) == [i \in 1..Len(groups) |-> groups[i].name]

\* the group the call looks up is missing from the list it resolves
LookupFails ==
    LET a == fin.val.args
    IN  CASE fin.val.fn = "generate_membrane_index" ->
               "Water_and_ions" \notin Names(DefaultGroups)
          [] fin.val.fn = "generate_posre" -> a.group \notin Names(DefaultGroups)
          [] fin.val.fn = "solvate_ions" ->
               a.ion_concentration > 0 /\ "SOL" \notin Names(a.solvated)

\* an invocation of make_ndx that only lists the default groups
OnlyLists(call) ==
    /\ Len(call.input) = 2
    /\ call.input[1].op = ""
    /\ call.input[2].op = "q"

InFolder(name) == join(fin.val.args.folder_path, name)

\* C12: when the group looked up ("Water_and_ions" in generate_membrane_index,
\* `group` in generate_posre, "SOL" in solvate_ions with ion_concentration > 0)
\* is missing from the resolved list, the call ends with a lookup error before
\* any index generation by selection, restraint generation or ion insertion,
\* and writes no index.ndx, no posre.itp and no replacement of the solvated
\* structure.
C12_LookupError ==
    (fout.done /\ LookupFails) =>
        /\ fout.val.error = "ValueError"
        /\ \A i \in 1..Len(fout.val.calls) :
             LET call == fout.val.calls[i]
             IN  /\ call.tool \notin {"genrestr", "genion", "move"}
                 /\ call.tool = "make_ndx" => OnlyLists(call)
        /\ InFolder("index.ndx") \notin DOMAIN fs
        /\ InFolder("posre.itp") \notin DOMAIN fs
        /\ InFolder("solvated_ions.gro") \notin DOMAIN fs
        /\ fin.val.fn = "solvate_ions" =>
             fs[InFolder("solvated.gro")] =
                [fs[SystemPath] EXCEPT !.text = fin.val.args.solvated]

\* solvate_ions with a positive concentration and no SOL among the groups of
\* the solvated structure: it has run grompp and failed in the lookup
C12_Witness ==
    /\ fout.done
    /\ fin.val.fn = "solvate_ions"
    /\ fin.val.args.ion_concentration = 15
    /\ LookupFails
    /\ fout.val.error = "ValueError"
    /\ InFolder("ions.tpr") \in DOMAIN fs

\* the invocations of one tool among those of the call
CallsOf(tool) ==
    {i \in 1..Len(fout.val.calls) : fout.val.calls[i].tool = tool}

NoIndexFile == \A q \in DOMAIN fs : fs[q].kind /= "ndx"

\* the atoms of the residues in exclude_res
ExcludedAtoms(exclude_res) ==
    {i \in GroupAtoms("System") : \E m \in 1..Len(exclude_res) : resid(i) = exclude_res[m]}

\* C18: for every list L of default groups that holds `group`, generate_posre
\* with a non-empty exclude_res asks for restraints on the refined group (the
\* group minus the residues of exclude_res), which is the second group
\* appended after the |L| default ones; with an empty exclude_res it asks for
\* restraints on `group` itself, by its position in L, and makes no index file.
C18_PosreHandle ==
    (fout.done /\ fin.val.fn = "generate_posre"
       /\ fin.val.args.group \in Names(DefaultGroups)) =>
        LET a     == fin.val.args
            L     == DefaultGroups
            calls == fout.val.calls
            posre == InFolder("posre.itp")
        IN  /\ fout.val.error = ""
            /\ Cardinality(CallsOf("genrestr")) = 1
            /\ \A i \in CallsOf("genrestr") :
                 IF a.exclude_res /= <<>>
                 THEN /\ calls[i].input = <<Len(L) + 1>>
                      /\ calls[i].n = InFolder("temp.ndx")
                      /\ i > 1
                      /\ calls[i - 1].tool = "make_ndx"
                      /\ calls[i - 1].o = InFolder("temp.ndx")
                      /\ LET made == NdxLines(L, GroupAtoms("System"), calls[i - 1].input)
                         IN  /\ Len(made) = Len(L) + 2
                             /\ SubSeq(made, 1, Len(L)) = L
                             /\ made[Len(L) + 2].atoms =
                                   GroupAtoms(a.group) \ ExcludedAtoms(a.exclude_res)
                      /\ fs[posre].text[1].atoms =
                            GroupAtoms(a.group) \ ExcludedAtoms(a.exclude_res)
                 ELSE /\ calls[i].input = <<index(NameList(L), a.group)>>
                      /\ calls[i].n = <<>>
                      /\ L[calls[i].input[1] + 1].name = a.group
                      /\ fs[posre].text[1] = Group(a.group)
                      /\ \A j \in CallsOf("make_ndx") : OnlyLists(calls[j])
            /\ NoIndexFile

\* restraints for System without residues 2 and 3, System being the last of
\* three default groups
C18_Witness ==
    /\ fout.done
    /\ fin.val.fn = "generate_posre"
    /\ fin.val.args.group = "System"
    /\ fin.val.args.exclude_res = <<2, 3>>
    /\ Len(DefaultGroups) = 3
    /\ DefaultGroups[3].name = "System"
    /\ fs[InFolder("posre.itp")].text[1].atoms = {1, 4}

\* the files the three callers of the resolver leave in the folder: the
\* transient index files are removed; solvate_ions with ions leaves its run
\* input ions.tpr beside the solvated structure
ResolverLeaves ==
    (fout.done /\ fout.val.error = "") =>
        LET new == (DOMAIN fs) \ {SystemPath, InFolder("template.top"),
                                  InFolder("topol.top"), InFolder("minim.mdp")}
        IN  CASE fin.val.fn = "generate_membrane_index" -> new = {InFolder("index.ndx")}
              [] fin.val.fn = "generate_posre" -> new = {InFolder("posre.itp")}
              [] fin.val.fn = "solvate_ions" ->
                   new = IF fin.val.args.ion_concentration > 0
                         THEN {InFolder("solvated.gro"), InFolder("ions.tpr")}
                         ELSE {InFolder("solvated.gro")}

\* the tools and file operations of the call, in the order of their invocation
ToolsInOrder == [i \in 1..Len(fout.val.calls) |-> fout.val.calls[i].tool]

\* what solvation has written for this call
SolvationOutput == [fs[SystemPath] EXCEPT !.text = fin.val.args.solvated]

\* C20 (as claimed): solvate_ions copies the template topology to the working
\* topology and then solvates, always and in this order; grompp, the lookup of
\* "SOL", genion and the replacement of the solvated structure by the structure
\* with ions all follow, in this order, if and only if ion_concentration > 0;
\* otherwise none of them is invoked and the solvated structure is the output
\* of solvation.
C20_AsClaimed ==
    (fout.done /\ fin.val.fn = "solvate_ions") =>
        /\ SubSeq(ToolsInOrder, 1, 2) = <<"copyfile", "solvate">>
        /\ IF fin.val.args.ion_concentration > 0
           THEN SubSeq(ToolsInOrder, 3, Len(ToolsInOrder))
                   = <<"grompp", "make_ndx", "remove", "genion", "move">>
           ELSE /\ Len(ToolsInOrder) = 2
                /\ fs[InFolder("solvated.gro")] = SolvationOutput

\* C20 (amended): solvate_ions copies the template topology to the working
\* topology and then solvates, always and in this order; with
\* ion_concentration > 0 grompp and the lookup of "SOL" follow, and then, when
\* "SOL" is among the groups, genion and the replacement of the solvated
\* structure by the structure with ions, while a missing "SOL" ends the call at
\* the lookup; with ion_concentration <= 0 none of them is invoked and the
\* solvated structure is the output of solvation.
C20_SolvateOrder ==
    (fout.done /\ fin.val.fn = "solvate_ions") =>
        LET a        == fin.val.args
            calls    == fout.val.calls
            solvated == InFolder("solvated.gro")
        IN  /\ SubSeq(ToolsInOrder, 1, 2) = <<"copyfile", "solvate">>
            /\ calls[1].o = InFolder("topol.top")
            /\ calls[2].o = solvated
            /\ SubSeq(fs[InFolder("topol.top")].text, 1, 2) = <<"template", "SOL">>
            /\ IF a.ion_concentration > 0
               THEN /\ SubSeq(ToolsInOrder, 3, 5) = <<"grompp", "make_ndx", "remove">>
                    /\ fs[InFolder("ions.tpr")].text[1] = SolvationOutput
                    /\ OnlyLists(calls[4])
                    /\ IF "SOL" \in Names(a.solvated)
                       THEN /\ fout.val.error = ""
                            /\ SubSeq(ToolsInOrder, 6, Len(calls)) = <<"genion", "move">>
                            /\ a.solvated[calls[6].input[1] + 1].name = "SOL"
                            /\ calls[6].o = InFolder("solvated_ions.gro")
                            /\ calls[7].o = solvated
                            /\ fs[solvated] =
                                 [SolvationOutput EXCEPT !.text =
                                     Append(@, [name |-> "NA_CL",
                                                atoms |-> GroupAtoms("SOL")])]
                            /\ InFolder("solvated_ions.gro") \notin DOMAIN fs
                       ELSE Len(calls) = 5
               ELSE /\ fout.val.error = ""
                    /\ Len(calls) = 2
                    /\ fs[solvated] = SolvationOutput
                    /\ InFolder("ions.tpr") \notin DOMAIN fs

\* ions added to a structure whose solvent is the third of its groups
C20_Witness ==
    /\ fout.done
    /\ fin.val.fn = "solvate_ions"
    /\ fin.val.args.ion_concentration = 15
    /\ Len(fin.val.args.solvated) >= 3
    /\ fin.val.args.solvated[3].name = "SOL"
    /\ fout.val.error = ""
    /\ ToolsInOrder = <<"copyfile", "solvate", "grompp", "make_ndx", "remove",
                        "genion", "move">>
    /\ fout.val.calls[6].input = <<2>>

====
